---- MODULE Spec2Model ----
(***************************************************************************)
(* Secret Santa room server (the Express handlers, saveData and the rate   *)
(* limiter of shared-utils.js) as a state machine.                         *)
(*                                                                         *)
(* Strings are sequences of one-character strings, so that trimming,       *)
(* slicing, stripping and concatenation are computed as the code computes  *)
(* them.  SHA-256 is modelled as an injective tagging of its input.        *)
(* A handler runs without interruption up to its await on saveData; the    *)
(* awaits inside saveData are the only places where another request can    *)
(* be served while a handler is suspended.                                 *)
(*                                                                         *)
(* The specifications run the same handlers in several environments:       *)
(*   Spec         all six routes on the full request domains, with a data  *)
(*                directory that cannot be created (saveData returns at    *)
(*                its first await, rooms.json is never written);           *)
(*   SpecSave     the routes that call saveData, with every outcome of     *)
(*                every fs call, on a small request domain;                *)
(*   SpecSaveFair SpecSave with the fs promises settling;                  *)
(*   SpecPersist  the same routes on a file system that never fails;       *)
(*   SpecShape    create and register on usernames that sanitizeString     *)
(*                changes;                                                 *)
(*   SpecRate     the rate limiter and the clock.                          *)
(* SpecClient runs what a browser computes: the draw of the host's page,   *)
(* which is modelled from the specification's section 4.3,                 *)
(* decryptWithPrivateKey and loginAndDecrypt, with the library calls and   *)
(* the server's answer modelled by their outcomes.                         *)
(* A room does not record createdAt, and the backups are not kept: no      *)
(* handler reads either.                                                   *)
(***************************************************************************)
EXTENDS Integers, Sequences, FiniteSets, TLC

VARIABLES
    rooms,          \* Map roomId -> room (line 285)
    saveInProgress, \* the module-level flag of saveData (line 310)
    savePc,         \* where the running saveData is suspended
    roomsData,      \* the JSON snapshot taken by the running saveData (line 333)
    file,           \* content of data/rooms.json
    pending,        \* the response the suspended handler sends once saveData returns
    rateLimitMap,   \* Map clientId -> timestamps (line 384)
    now,            \* Date.now()
    resp,           \* the request answered by the last step, with its response
    client,         \* a browser: the draw of the host, the login of a participant
    admitted        \* per client, the times of its admitted requests of the last window

vars == <<rooms, saveInProgress, savePc, roomsData, file, pending, rateLimitMap, now, resp,
          client, admitted>>

----------------------------------------------------------------------------
(* Bounds and input domains *)

MaxBatchLen == 2
MaxTicks == 3
MaxParticipants == 3

RATE_LIMIT_WINDOW == 60000
MAX_REQUESTS_PER_WINDOW == 10

TickMs == RATE_LIMIT_WINDOW \div 2

Null == "null"
Absent == "absent"
NoUsername == << >>
True == "true"
False == "false"

EMPTY == << >>
A == <<"a">>
AL == <<"a", "l">>
BO == <<"b", "o">>
BO_SP == <<"b", "o", " ">>
AL_LT == <<"a", "l", " ", "<">>
LT_A == <<"<", "a">>
QUOTED == <<"'", " ", " ", "'">>
CY == <<"c", "y">>
DI == <<"d", "i">>
PW1 == <<"p", "a", "s", "s">>
PW2 == <<"w", "o", "r", "d">>
LPASS == <<"l", "p", "a", "s", "s">>
SHORT == <<"a", "b", "c">>
XMAS == <<"x">>

RoomIds == {"r1"}
Clients == {"ip1", "ip2"}
Usernames == {EMPTY, AL, BO, BO_SP}
Passwords == {EMPTY, SHORT, PW1, PW2}
RoomNames == {EMPTY, XMAS}
HostUsernames == {EMPTY, A, AL}
HostPasswords == {EMPTY, PW1, PW2, LPASS}
NewHostPasswords == {EMPTY, SHORT, PW1}
Ciphertexts == {"c1", "c2"}
ShapeUsernames == {A, AL, BO_SP, AL_LT, LT_A, QUOTED}
PublicKeys == {"pk1"}
KeySalts == {"s1"}
DrawNames == {AL, BO, CY, DI}
KeyPairs == {"k1", "k2"}
PrivateKeys == KeyPairs \cup {"undefined"}
Plaintexts == {EMPTY, AL, BO}

----------------------------------------------------------------------------
(* Pure helpers *)

Min(S) == CHOOSE x \in S : \A y \in S : x <= y

Whitespace == {" ", "\t", "\n"}
Stripped == {"<", ">", "\"", "'", "&"}

RECURSIVE trimStart(_)
trimStart(s) ==
    IF s # << >> /\ Head(s) \in Whitespace THEN trimStart(Tail(s)) ELSE s

RECURSIVE trimEnd(_)
trimEnd(s) ==
    IF s # << >> /\ s[Len(s)] \in Whitespace
    THEN trimEnd(SubSeq(s, 1, Len(s) - 1))
    ELSE s

trim(s) == trimEnd(trimStart(s))

slice(s, maxLength) == SubSeq(s, 1, IF Len(s) < maxLength THEN Len(s) ELSE maxLength)

sanitizeString(str, maxLength) ==
    SelectSeq(slice(trim(str), maxLength), LAMBDA c : c \notin Stripped)

hashPassword(password) == <<"sha256", password>>

verifyPassword(password, hash) == hashPassword(password) = hash

Ok(value) == [ok |-> TRUE, value |-> value, error |-> ""]
Throw(error) == [ok |-> FALSE, value |-> << >>, error |-> error]

validateUsername(username) ==
    LET sanitized == sanitizeString(username, 50)
    IN  IF sanitized = << >> \/ Len(sanitized) < 2
        THEN Throw("Username must be at least 2 characters")
        ELSE Ok(sanitized)

validatePassword(password) ==
    IF Len(password) < 4
    THEN Throw("Password must be at least 4 characters")
    ELSE Ok(password)

validateRoomName(name) ==
    LET sanitized == sanitizeString(name, 100)
    IN  IF sanitized = << >> \/ Len(sanitized) < 1
        THEN Throw("Room name cannot be empty")
        ELSE Ok(sanitized)

falsy(str) == str = << >>

\* Array.prototype.find on participants by username: index of the first match, 0 if none
find(participants, username) ==
    LET I == {i \in 1..Len(participants) : participants[i].username = username}
    IN  IF I = {} THEN 0 ELSE Min(I)

\* isRateLimited with > for >= at line 393
isRateLimitedOneMore(map, clientId, time) ==
    LET requests == IF clientId \in DOMAIN map THEN map[clientId] ELSE << >>
        recentRequests == SelectSeq(requests, LAMBDA t : time - t < RATE_LIMIT_WINDOW)
    IN  IF Len(recentRequests) > MAX_REQUESTS_PER_WINDOW
        THEN [limited |-> TRUE, map |-> map]
        ELSE [limited |-> FALSE,
              map |-> [c \in DOMAIN map \cup {clientId} |->
                          IF c = clientId THEN Append(recentRequests, time) ELSE map[c]]]

isRateLimited(map, clientId, time) ==
    LET requests == IF clientId \in DOMAIN map THEN map[clientId] ELSE << >>
        recentRequests == SelectSeq(requests, LAMBDA t : time - t < RATE_LIMIT_WINDOW)
    IN  IF Len(recentRequests) >= MAX_REQUESTS_PER_WINDOW
        THEN [limited |-> TRUE, map |-> map]
        ELSE [limited |-> FALSE,
              map |-> [c \in DOMAIN map \cup {clientId} |->
                          IF c = clientId THEN Append(recentRequests, time) ELSE map[c]]]

----------------------------------------------------------------------------
(* Requests and responses *)

\* A response: its HTTP status, the error of its body, and the fields of a success
\* body that the properties read (Absent, NoUsername: the body has no such field)
Res(status, error) ==
    [status |-> status, error |-> error, username |-> NoUsername,
     encryptedAssignment |-> Absent, keySalt |-> Absent, alreadyRegistered |-> Absent,
     isHost |-> Absent, roomStatus |-> Absent]

\* What a handler leaves behind: the rooms map, its response, whether it awaits saveData()
Done(rms, res) == [rooms |-> rms, res |-> res, save |-> FALSE]
Saved(rms, res) == [rooms |-> rms, res |-> res, save |-> TRUE]

Missing == [kind |-> "missing", items |-> << >>]
NotArray == [kind |-> "object", items |-> << >>]
Array(items) == [kind |-> "array", items |-> items]

Entry(username, encryptedAssignment) ==
    [isNull |-> FALSE, username |-> username, encryptedAssignment |-> encryptedAssignment]
NullEntry == [isNull |-> TRUE, username |-> << >>, encryptedAssignment |-> Null]

BatchEntries == {Entry(AL, "c1"), Entry(AL, "c2"), Entry(BO, "c2"), NullEntry}

RECURSIVE SeqsUpTo(_, _)
SeqsUpTo(S, n) ==
    IF n = 0 THEN {<< >>}
    ELSE LET shorter == SeqsUpTo(S, n - 1)
         IN  shorter \cup {Append(q, e) : q \in {x \in shorter : Len(x) = n - 1}, e \in S}

Batches == {Missing, NotArray} \cup {Array(q) : q \in SeqsUpTo(BatchEntries, MaxBatchLen)}

----------------------------------------------------------------------------
(* POST /api/rooms *)

createRoom(rms, roomId, name, hostUsername, hostPassword, autoJoinHost) ==
    IF falsy(name) \/ falsy(hostUsername) \/ falsy(hostPassword)
    THEN Done(rms, Res(400, "Room name, host username, and password are required"))
    ELSE
    LET sanitizedName == validateRoomName(name)
        sanitizedUsername == validateUsername(hostUsername)
        checkedPassword == validatePassword(hostPassword)
    IN  IF ~sanitizedName.ok THEN Done(rms, Res(400, sanitizedName.error))
        ELSE IF ~sanitizedUsername.ok THEN Done(rms, Res(400, sanitizedUsername.error))
        ELSE IF ~checkedPassword.ok THEN Done(rms, Res(400, checkedPassword.error))
        ELSE
        LET room == [id |-> roomId,
                     name |-> sanitizedName.value,
                     hostUsername |-> sanitizedUsername.value,
                     hostLoginHash |-> hashPassword(sanitizedUsername.value \o hostPassword),
                     participants |->
                         IF autoJoinHost
                         THEN << [username |-> sanitizedUsername.value,
                                  passwordHash |-> hashPassword(hostPassword),
                                  encryptedAssignment |-> Null] >>
                         ELSE << >>,
                     status |-> "open"]
        IN  Saved([r \in DOMAIN rms \cup {roomId} |-> IF r = roomId THEN room ELSE rms[r]],
                  [Res(200, "") EXCEPT !.roomStatus = room.status])

(* POST /api/rooms/:id/register *)

\* register without the check of lines 508-510
registerAfterStart(rms, roomId, username, password) ==
    IF falsy(username) \/ falsy(password)
    THEN Done(rms, Res(400, "Username and password are required"))
    ELSE IF roomId \notin DOMAIN rms THEN Done(rms, Res(404, "Room not found"))
    ELSE
    LET room == rms[roomId]
        sanitizedUsername == validateUsername(username)
        checkedPassword == validatePassword(password)
    IN  IF ~sanitizedUsername.ok THEN Done(rms, Res(400, sanitizedUsername.error))
        ELSE IF ~checkedPassword.ok THEN Done(rms, Res(400, checkedPassword.error))
        ELSE IF hashPassword(sanitizedUsername.value \o password) = room.hostLoginHash
        THEN Done(rms, [Res(200, "") EXCEPT !.isHost = True,
                                            !.username = sanitizedUsername.value,
                                            !.roomStatus = room.status])
        ELSE
        LET existingParticipant == find(room.participants, sanitizedUsername.value)
        IN  IF existingParticipant # 0
            THEN IF ~verifyPassword(password, room.participants[existingParticipant].passwordHash)
                 THEN Done(rms, Res(401, "Invalid password for this username"))
                 ELSE Done(rms, [Res(200, "") EXCEPT !.alreadyRegistered = True,
                                                     !.isHost = False,
                                                     !.username = sanitizedUsername.value,
                                                     !.roomStatus = room.status])
            ELSE Saved([rms EXCEPT ![roomId].participants =
                            Append(@, [username |-> sanitizedUsername.value,
                                       passwordHash |-> hashPassword(password),
                                       encryptedAssignment |-> Null])],
                       [Res(200, "") EXCEPT !.alreadyRegistered = False,
                                            !.isHost = False,
                                            !.username = sanitizedUsername.value])

\* register without the return of lines 541-553: a participant who signs in again
\* is pushed again
registerTwice(rms, roomId, username, password) ==
    IF falsy(username) \/ falsy(password)
    THEN Done(rms, Res(400, "Username and password are required"))
    ELSE IF roomId \notin DOMAIN rms THEN Done(rms, Res(404, "Room not found"))
    ELSE
    LET room == rms[roomId]
        sanitizedUsername == validateUsername(username)
        checkedPassword == validatePassword(password)
    IN  IF room.status = "started"
        THEN Done(rms, Res(400, "Room has already started. Registration is closed."))
        ELSE IF ~sanitizedUsername.ok THEN Done(rms, Res(400, sanitizedUsername.error))
        ELSE IF ~checkedPassword.ok THEN Done(rms, Res(400, checkedPassword.error))
        ELSE IF hashPassword(sanitizedUsername.value \o password) = room.hostLoginHash
        THEN Done(rms, [Res(200, "") EXCEPT !.isHost = True,
                                            !.username = sanitizedUsername.value,
                                            !.roomStatus = room.status])
        ELSE
        LET existingParticipant == find(room.participants, sanitizedUsername.value)
        IN  IF existingParticipant # 0
               /\ ~verifyPassword(password, room.participants[existingParticipant].passwordHash)
            THEN Done(rms, Res(401, "Invalid password for this username"))
            ELSE Saved([rms EXCEPT ![roomId].participants =
                            Append(@, [username |-> sanitizedUsername.value,
                                       passwordHash |-> hashPassword(password),
                                       encryptedAssignment |-> Null])],
                       [Res(200, "") EXCEPT !.alreadyRegistered = False,
                                            !.isHost = False,
                                            !.username = sanitizedUsername.value])

register(rms, roomId, username, password) ==
    IF falsy(username) \/ falsy(password)
    THEN Done(rms, Res(400, "Username and password are required"))
    ELSE IF roomId \notin DOMAIN rms THEN Done(rms, Res(404, "Room not found"))
    ELSE
    LET room == rms[roomId]
        sanitizedUsername == validateUsername(username)
        checkedPassword == validatePassword(password)
    IN  IF room.status = "started"
        THEN Done(rms, Res(400, "Room has already started. Registration is closed."))
        ELSE IF ~sanitizedUsername.ok THEN Done(rms, Res(400, sanitizedUsername.error))
        ELSE IF ~checkedPassword.ok THEN Done(rms, Res(400, checkedPassword.error))
        ELSE IF hashPassword(sanitizedUsername.value \o password) = room.hostLoginHash
        THEN Done(rms, [Res(200, "") EXCEPT !.isHost = True,
                                            !.username = sanitizedUsername.value,
                                            !.roomStatus = room.status])
        ELSE
        LET existingParticipant == find(room.participants, sanitizedUsername.value)
        IN  IF existingParticipant # 0
            THEN IF ~verifyPassword(password, room.participants[existingParticipant].passwordHash)
                 THEN Done(rms, Res(401, "Invalid password for this username"))
                 ELSE Done(rms, [Res(200, "") EXCEPT !.alreadyRegistered = True,
                                                     !.isHost = False,
                                                     !.username = sanitizedUsername.value,
                                                     !.roomStatus = room.status])
            ELSE Saved([rms EXCEPT ![roomId].participants =
                            Append(@, [username |-> sanitizedUsername.value,
                                       passwordHash |-> hashPassword(password),
                                       encryptedAssignment |-> Null])],
                       [Res(200, "") EXCEPT !.alreadyRegistered = False,
                                            !.isHost = False,
                                            !.username = sanitizedUsername.value])

(* POST /api/rooms/:id/host-auth *)

hostAuth(rms, roomId, username, password) ==
    IF falsy(username) \/ falsy(password)
    THEN Done(rms, Res(400, "Username and password are required"))
    ELSE IF roomId \notin DOMAIN rms THEN Done(rms, Res(404, "Room not found"))
    ELSE IF hashPassword(username \o password) # rms[roomId].hostLoginHash
    THEN Done(rms, Res(401, "Invalid host credentials"))
    ELSE Done(rms, [Res(200, "") EXCEPT !.roomStatus = rms[roomId].status])

(* POST /api/rooms/:id/remove-participant *)

\* removeParticipant with participants.shift() for the filter of line 640
removeParticipantShift(rms, roomId, hostUsername, hostPassword, username) ==
    IF falsy(hostUsername) \/ falsy(hostPassword) \/ falsy(username)
    THEN Done(rms, Res(400, "Host username, password and participant username are required"))
    ELSE IF roomId \notin DOMAIN rms THEN Done(rms, Res(404, "Room not found"))
    ELSE
    LET room == rms[roomId]
        filtered == IF find(room.participants, username) = 0 THEN room.participants
                    ELSE Tail(room.participants)
    IN  IF hashPassword(hostUsername \o hostPassword) # room.hostLoginHash
        THEN Done(rms, Res(401, "Invalid host credentials"))
        ELSE IF room.status = "started"
        THEN Done(rms, Res(400, "Cannot remove participants after room has started"))
        ELSE IF Len(filtered) = Len(room.participants)
        THEN Done([rms EXCEPT ![roomId].participants = filtered],
                  Res(404, "Participant not found"))
        ELSE Saved([rms EXCEPT ![roomId].participants = filtered], Res(200, ""))

removeParticipant(rms, roomId, hostUsername, hostPassword, username) ==
    IF falsy(hostUsername) \/ falsy(hostPassword) \/ falsy(username)
    THEN Done(rms, Res(400, "Host username, password and participant username are required"))
    ELSE IF roomId \notin DOMAIN rms THEN Done(rms, Res(404, "Room not found"))
    ELSE
    LET room == rms[roomId]
        filtered == SelectSeq(room.participants, LAMBDA p : p.username # username)
    IN  IF hashPassword(hostUsername \o hostPassword) # room.hostLoginHash
        THEN Done(rms, Res(401, "Invalid host credentials"))
        ELSE IF room.status = "started"
        THEN Done(rms, Res(400, "Cannot remove participants after room has started"))
        ELSE IF Len(filtered) = Len(room.participants)
        THEN Done([rms EXCEPT ![roomId].participants = filtered],
                  Res(404, "Participant not found"))
        ELSE Saved([rms EXCEPT ![roomId].participants = filtered], Res(200, ""))

(* POST /api/rooms/:id/start *)

\* encryptedAssignments.forEach(...): destructuring a null entry throws after the
\* entries before it have been written
RECURSIVE forEachAssignment(_, _, _)
forEachAssignment(participants, items, i) ==
    IF i > Len(items) THEN [participants |-> participants, threw |-> FALSE]
    ELSE IF items[i].isNull THEN [participants |-> participants, threw |-> TRUE]
    ELSE LET p == find(participants, items[i].username)
         IN  forEachAssignment(
                 IF p = 0 THEN participants
                 ELSE [participants EXCEPT ![p].encryptedAssignment = items[i].encryptedAssignment],
                 items, i + 1)

\* startRoom without the check of lines 679-681
startRoomAgain(rms, roomId, hostUsername, hostPassword, encryptedAssignments) ==
    IF falsy(hostUsername) \/ falsy(hostPassword) \/ encryptedAssignments.kind = "missing"
    THEN Done(rms, Res(400, "Host username, password and encrypted assignments are required"))
    ELSE IF roomId \notin DOMAIN rms THEN Done(rms, Res(404, "Room not found"))
    ELSE
    LET room == rms[roomId]
        written == forEachAssignment(room.participants, encryptedAssignments.items, 1)
    IN  IF hashPassword(hostUsername \o hostPassword) # room.hostLoginHash
        THEN Done(rms, Res(401, "Invalid host credentials"))
        ELSE IF Len(room.participants) < 2
        THEN Done(rms, Res(400, "At least 2 participants are required"))
        ELSE IF encryptedAssignments.kind # "array"
        THEN Done(rms, Res(500, "Internal server error"))
        ELSE IF written.threw
        THEN Done([rms EXCEPT ![roomId].participants = written.participants],
                  Res(500, "Internal server error"))
        ELSE Saved([rms EXCEPT ![roomId].participants = written.participants,
                               ![roomId].status = "started"],
                   [Res(200, "") EXCEPT !.roomStatus = "started"])

\* startRoom with line 694 moved before the forEach of line 687
startRoomFlipsFirst(rms, roomId, hostUsername, hostPassword, encryptedAssignments) ==
    IF falsy(hostUsername) \/ falsy(hostPassword) \/ encryptedAssignments.kind = "missing"
    THEN Done(rms, Res(400, "Host username, password and encrypted assignments are required"))
    ELSE IF roomId \notin DOMAIN rms THEN Done(rms, Res(404, "Room not found"))
    ELSE
    LET room == rms[roomId]
        written == forEachAssignment(room.participants, encryptedAssignments.items, 1)
    IN  IF hashPassword(hostUsername \o hostPassword) # room.hostLoginHash
        THEN Done(rms, Res(401, "Invalid host credentials"))
        ELSE IF room.status = "started"
        THEN Done(rms, Res(400, "Room has already started"))
        ELSE IF Len(room.participants) < 2
        THEN Done(rms, Res(400, "At least 2 participants are required"))
        ELSE IF encryptedAssignments.kind # "array"
        THEN Done(rms, Res(500, "Internal server error"))
        ELSE IF written.threw
        THEN Done([rms EXCEPT ![roomId].participants = written.participants,
                              ![roomId].status = "started"],
                  Res(500, "Internal server error"))
        ELSE Saved([rms EXCEPT ![roomId].participants = written.participants,
                               ![roomId].status = "started"],
                   [Res(200, "") EXCEPT !.roomStatus = "started"])

\* startRoom without the check of lines 683-685
startRoomAlone(rms, roomId, hostUsername, hostPassword, encryptedAssignments) ==
    IF falsy(hostUsername) \/ falsy(hostPassword) \/ encryptedAssignments.kind = "missing"
    THEN Done(rms, Res(400, "Host username, password and encrypted assignments are required"))
    ELSE IF roomId \notin DOMAIN rms THEN Done(rms, Res(404, "Room not found"))
    ELSE
    LET room == rms[roomId]
        written == forEachAssignment(room.participants, encryptedAssignments.items, 1)
    IN  IF hashPassword(hostUsername \o hostPassword) # room.hostLoginHash
        THEN Done(rms, Res(401, "Invalid host credentials"))
        ELSE IF room.status = "started"
        THEN Done(rms, Res(400, "Room has already started"))
        ELSE IF encryptedAssignments.kind # "array"
        THEN Done(rms, Res(500, "Internal server error"))
        ELSE IF written.threw
        THEN Done([rms EXCEPT ![roomId].participants = written.participants],
                  Res(500, "Internal server error"))
        ELSE Saved([rms EXCEPT ![roomId].participants = written.participants,
                               ![roomId].status = "started"],
                   [Res(200, "") EXCEPT !.roomStatus = "started"])

startRoom(rms, roomId, hostUsername, hostPassword, encryptedAssignments) ==
    IF falsy(hostUsername) \/ falsy(hostPassword) \/ encryptedAssignments.kind = "missing"
    THEN Done(rms, Res(400, "Host username, password and encrypted assignments are required"))
    ELSE IF roomId \notin DOMAIN rms THEN Done(rms, Res(404, "Room not found"))
    ELSE
    LET room == rms[roomId]
        written == forEachAssignment(room.participants, encryptedAssignments.items, 1)
    IN  IF hashPassword(hostUsername \o hostPassword) # room.hostLoginHash
        THEN Done(rms, Res(401, "Invalid host credentials"))
        ELSE IF room.status = "started"
        THEN Done(rms, Res(400, "Room has already started"))
        ELSE IF Len(room.participants) < 2
        THEN Done(rms, Res(400, "At least 2 participants are required"))
        ELSE IF encryptedAssignments.kind # "array"
        THEN Done(rms, Res(500, "Internal server error"))
        ELSE IF written.threw
        THEN Done([rms EXCEPT ![roomId].participants = written.participants],
                  Res(500, "Internal server error"))
        ELSE Saved([rms EXCEPT ![roomId].participants = written.participants,
                               ![roomId].status = "started"],
                   [Res(200, "") EXCEPT !.roomStatus = "started"])

(* POST /api/rooms/:id/login *)

\* login without the check of lines 732-737
loginBeforeStart(rms, roomId, username, password) ==
    IF falsy(username) \/ falsy(password)
    THEN Done(rms, Res(400, "Username and password are required"))
    ELSE IF roomId \notin DOMAIN rms THEN Done(rms, Res(404, "Room not found"))
    ELSE
    LET room == rms[roomId]
        participant == find(room.participants, username)
    IN  IF participant = 0
        THEN Done(rms, Res(404, "User not found in this room"))
        ELSE IF ~verifyPassword(password, room.participants[participant].passwordHash)
        THEN Done(rms, Res(401, "Invalid password"))
        ELSE Done(rms, [Res(200, "") EXCEPT
                            !.username = room.participants[participant].username,
                            !.encryptedAssignment =
                                room.participants[participant].encryptedAssignment])

\* login without the check of lines 728-730
loginAnyPassword(rms, roomId, username, password) ==
    IF falsy(username) \/ falsy(password)
    THEN Done(rms, Res(400, "Username and password are required"))
    ELSE IF roomId \notin DOMAIN rms THEN Done(rms, Res(404, "Room not found"))
    ELSE
    LET room == rms[roomId]
        participant == find(room.participants, username)
    IN  IF participant = 0
        THEN Done(rms, Res(404, "User not found in this room"))
        ELSE IF room.status # "started"
        THEN Done(rms, [Res(400, "Room has not started yet") EXCEPT !.roomStatus = room.status])
        ELSE Done(rms, [Res(200, "") EXCEPT
                            !.username = room.participants[participant].username,
                            !.encryptedAssignment =
                                room.participants[participant].encryptedAssignment])

login(rms, roomId, username, password) ==
    IF falsy(username) \/ falsy(password)
    THEN Done(rms, Res(400, "Username and password are required"))
    ELSE IF roomId \notin DOMAIN rms THEN Done(rms, Res(404, "Room not found"))
    ELSE
    LET room == rms[roomId]
        participant == find(room.participants, username)
    IN  IF participant = 0
        THEN Done(rms, Res(404, "User not found in this room"))
        ELSE IF ~verifyPassword(password, room.participants[participant].passwordHash)
        THEN Done(rms, Res(401, "Invalid password"))
        ELSE IF room.status # "started"
        THEN Done(rms, [Res(400, "Room has not started yet") EXCEPT !.roomStatus = room.status])
        ELSE Done(rms, [Res(200, "") EXCEPT
                            !.username = room.participants[participant].username,
                            !.encryptedAssignment =
                                room.participants[participant].encryptedAssignment])

----------------------------------------------------------------------------
(* The draw, in the host's browser (spec 4.3) *)

\* the lists of 2..MaxParticipants distinct participants
DrawLists ==
    {q \in SeqsUpTo(DrawNames, MaxParticipants) :
        /\ Len(q) >= 2
        /\ \A k, l \in 1..Len(q) : q[k] = q[l] => k = l}

swap(a, i, j) == [a EXCEPT ![i] = a[j], ![j] = a[i]]

\* the check that stops before the last position
hasFixedPointButLast(participants, shuffled) ==
    \E k \in 1..(Len(participants) - 1) : shuffled[k] = participants[k]

hasFixedPoint(participants, shuffled) ==
    \E k \in 1..Len(participants) : shuffled[k] = participants[k]

(* decryptWithPrivateKey, in a participant's browser *)

\* the base64 text of the RSA-OAEP encryption of a plaintext under the public key of
\* a pair, a text that is no such encoding, and a null encryptedAssignment
Oaep(keyPair, plaintext) == [kind |-> "oaep", keyPair |-> keyPair, plaintext |-> plaintext]
Corrupted == [kind |-> "corrupted", keyPair |-> "none", plaintext |-> << >>]
NullInput == [kind |-> "null", keyPair |-> "none", plaintext |-> << >>]
NoInput == [kind |-> "none", keyPair |-> "none", plaintext |-> << >>]

Base64Inputs ==
    {Oaep(k, m) : k \in KeyPairs, m \in Plaintexts} \cup {Corrupted, NullInput}

\* how a call ends: with a string, with null, or with an exception
Returns(value) == [threw |-> FALSE, isNull |-> FALSE, value |-> value]
ReturnsNull == [threw |-> FALSE, isNull |-> TRUE, value |-> << >>]
Throws == [threw |-> TRUE, isNull |-> FALSE, value |-> << >>]

\* forge.util.decode64: the bytes of the text; it calls a method of its argument
decode64(encryptedBase64) ==
    IF encryptedBase64.kind = "null" THEN [threw |-> TRUE, bytes |-> NoInput]
    ELSE [threw |-> FALSE, bytes |-> encryptedBase64]

\* privateKey.decrypt(encrypted, 'RSA-OAEP', ...): the plaintext when the bytes are an
\* encryption under this pair's public key, an exception otherwise
decrypt(encrypted, privateKey) ==
    IF privateKey = "undefined" THEN Throws
    ELSE IF encrypted.kind # "oaep" \/ encrypted.keyPair # privateKey THEN Throws
    ELSE Returns(encrypted.plaintext)

\* decryptWithPrivateKey with line 136 after the try block
decryptWithPrivateKeyUncaught(encryptedBase64, privateKey) ==
    LET encrypted == decode64(encryptedBase64)
    IN  IF encrypted.threw THEN ReturnsNull
        ELSE decrypt(encrypted.bytes, privateKey)

decryptWithPrivateKey(encryptedBase64, privateKey) ==
    LET encrypted == decode64(encryptedBase64)
    IN  IF encrypted.threw THEN ReturnsNull
        ELSE LET decrypted == decrypt(encrypted.bytes, privateKey)
             IN  IF decrypted.threw THEN ReturnsNull ELSE decrypted

(* loginAndDecrypt, in a participant's browser *)

\* the test of line 253 with === null for !
assignmentIsNull(assignment) == assignment.isNull

\* !assignment (line 253): null and the empty string
assignmentMissing(assignment) == assignment.isNull \/ assignment.value = << >>

----------------------------------------------------------------------------
(* State machine *)

\* a browser in which nothing has been computed yet
Idle ==
    [pc |-> "idle", participants |-> << >>, shuffled |-> << >>, i |-> 0,
     encryptedBase64 |-> NoInput, privateKey |-> "undefined", assignment |-> ReturnsNull,
     disabled |-> FALSE, response |-> "none", derived |-> FALSE]

NoFile == [kind |-> "ENOENT", rooms |-> << >>]
Truncated == [kind |-> "truncated", rooms |-> << >>]
Json(rms) == [kind |-> "json", rooms |-> rms]
NoSnapshot == [kind |-> "none", rooms |-> << >>]

Exchange(op, roomId, res) == [op |-> op, roomId |-> roomId, res |-> res]

NoResp == Exchange("none", "", Res(0, ""))

Init ==
    /\ rooms = << >>
    /\ saveInProgress = FALSE
    /\ savePc = "idle"
    /\ roomsData = NoSnapshot
    /\ file = NoFile
    /\ pending = NoResp
    /\ rateLimitMap = << >>
    /\ now = 0
    /\ resp = NoResp
    /\ client = Idle
    /\ admitted = << >>

\* The synchronous part of a handler and, when it ends in `await saveData()`, the
\* synchronous head of saveData (lines 312-322): a call made while a save is in
\* progress returns at once and the handler responds; otherwise the flag is set and
\* the handler stays suspended with its response until the save has run.
\* Handle with a saveData that lacks the test of lines 312-315
HandleNoSkip(h, op, roomId) ==
    /\ rooms' = h.rooms
    /\ IF h.save
       THEN /\ saveInProgress' = TRUE
            /\ savePc' = "mkdir"
            /\ pending' = Exchange(op, roomId, h.res)
            /\ resp' = NoResp
       ELSE /\ resp' = Exchange(op, roomId, h.res)
            /\ UNCHANGED <<saveInProgress, savePc, pending>>
    /\ UNCHANGED <<roomsData, file>>

Handle(h, op, roomId) ==
    /\ rooms' = h.rooms
    /\ IF h.save /\ ~saveInProgress
       THEN /\ saveInProgress' = TRUE
            /\ savePc' = "mkdir"
            /\ pending' = Exchange(op, roomId, h.res)
            /\ resp' = NoResp
       ELSE /\ resp' = Exchange(op, roomId, h.res)
            /\ UNCHANGED <<saveInProgress, savePc, pending>>
    /\ UNCHANGED <<roomsData, file>>

TooManyRequests == Res(429, "Too many requests. Please wait a minute.")

\* Create and Register take the limiter's verdict as an input: it depends only on
\* req.ip and on the times of that client's earlier requests, which the environment
\* chooses.  Limiter is the limiter itself, on its own state.
Create(names, hostUsernames, hostPasswords) ==
    \E limited \in BOOLEAN, roomId \in RoomIds, name \in names,
       hostUsername \in hostUsernames, hostPassword \in hostPasswords,
       autoJoinHost \in BOOLEAN :
        LET h == IF limited THEN Done(rooms, TooManyRequests)
                 ELSE createRoom(rooms, roomId, name, hostUsername, hostPassword, autoJoinHost)
        IN  /\ h.save => roomId \notin DOMAIN rooms
            /\ Handle(h, "create", roomId)
            /\ UNCHANGED <<rateLimitMap, now, client, admitted>>

\* The body sent by registerUser (line 211) also has publicKey and keySalt; the
\* handler takes username and password out of it (line 496) and nothing else.
Register(usernames, passwords) ==
    \E limited \in BOOLEAN, roomId \in RoomIds,
       username \in usernames, password \in passwords,
       publicKey \in PublicKeys, keySalt \in KeySalts :
        LET h == IF limited THEN Done(rooms, TooManyRequests)
                 ELSE register(rooms, roomId, username, password)
        IN  /\ Handle(h, "register", roomId)
            /\ UNCHANGED <<rateLimitMap, now, client, admitted>>

HostAuth(usernames, passwords) ==
    \E roomId \in RoomIds, username \in usernames, password \in passwords :
        /\ Handle(hostAuth(rooms, roomId, username, password), "host-auth", roomId)
        /\ UNCHANGED <<rateLimitMap, now, client, admitted>>

RemoveParticipant(hostUsernames, hostPasswords, usernames) ==
    \E roomId \in RoomIds, hostUsername \in hostUsernames, hostPassword \in hostPasswords,
       username \in usernames :
        /\ Handle(removeParticipant(rooms, roomId, hostUsername, hostPassword, username),
                  "remove-participant", roomId)
        /\ UNCHANGED <<rateLimitMap, now, client, admitted>>

Start(hostUsernames, hostPasswords, batches) ==
    \E roomId \in RoomIds, hostUsername \in hostUsernames, hostPassword \in hostPasswords,
       encryptedAssignments \in batches :
        /\ Handle(startRoom(rooms, roomId, hostUsername, hostPassword, encryptedAssignments),
                  "start", roomId)
        /\ UNCHANGED <<rateLimitMap, now, client, admitted>>

Login(usernames, passwords) ==
    \E roomId \in RoomIds, username \in usernames, password \in passwords :
        /\ Handle(login(rooms, roomId, username, password), "login", roomId)
        /\ UNCHANGED <<rateLimitMap, now, client, admitted>>

\* saveData past its first await (lines 322-341).  Every fs call can fail: a failure
\* of mkdir or of the final write goes to the outer catch, a failure of the backup's
\* read or write only skips the backup.  `finally` clears the flag, saveData returns
\* and the suspended handler sends its response.
SaveReturns ==
    /\ saveInProgress' = FALSE
    /\ savePc' = "idle"
    /\ roomsData' = NoSnapshot
    /\ resp' = pending
    /\ pending' = NoResp
    /\ UNCHANGED <<rooms, rateLimitMap, now, client, admitted>>

SaveContinues(pc) ==
    /\ savePc' = pc
    /\ resp' = NoResp
    /\ UNCHANGED <<rooms, saveInProgress, file, pending, rateLimitMap, now, client, admitted>>

SaveMkdir ==
    /\ savePc = "mkdir"
    /\ SaveContinues("read")
    /\ UNCHANGED roomsData

SaveMkdirFails ==
    /\ savePc = "mkdir"
    /\ SaveReturns
    /\ UNCHANGED file

SaveRead ==
    /\ savePc = "read"
    /\ file # NoFile
    /\ SaveContinues("backup")
    /\ UNCHANGED roomsData

SaveReadFails ==
    /\ savePc = "read"
    /\ SaveContinues("write")
    /\ roomsData' = Json(rooms)

\* the read of line 326 on a server that has not written rooms.json yet
SaveNoFile ==
    /\ file = NoFile
    /\ SaveReadFails

SaveBackup ==
    /\ savePc = "backup"
    /\ SaveContinues("write")
    /\ roomsData' = Json(rooms)

SaveWrite ==
    /\ savePc = "write"
    /\ file' = roomsData
    /\ SaveReturns

SaveWriteFails ==
    /\ savePc = "write"
    /\ file' \in {file, Truncated}
    /\ SaveReturns

\* A create or register request as far as the limiter (lines 414-417, 491-494)
Limiter ==
    \E clientId \in Clients :
        LET limit == isRateLimited(rateLimitMap, clientId, now)
            recent == IF clientId \in DOMAIN admitted THEN admitted[clientId] ELSE << >>
        IN  /\ rateLimitMap' = limit.map
            /\ resp' = Exchange("limiter", "", IF limit.limited THEN TooManyRequests
                                                 ELSE Res(0, ""))
            /\ admitted' = IF limit.limited THEN admitted
                           ELSE [c \in DOMAIN admitted \cup {clientId} |->
                                    IF c = clientId THEN Append(recent, now) ELSE admitted[c]]
            /\ UNCHANGED <<rooms, saveInProgress, savePc, roomsData, file, pending, now,
                           client>>

Tick ==
    /\ now < MaxTicks * TickMs
    /\ now' = now + TickMs
    /\ resp' = NoResp
    /\ admitted' = [c \in DOMAIN admitted |->
                       SelectSeq(admitted[c],
                                 LAMBDA t : now + TickMs - t < RATE_LIMIT_WINDOW)]
    /\ UNCHANGED <<rooms, saveInProgress, savePc, roomsData, file, pending, rateLimitMap,
                   client>>

\* The room handlers on a server whose data directory cannot be created: every fs
\* outcome leaves rooms and the responses the same (saveData swallows its errors),
\* so this environment keeps the suspension of the handlers and drops the file.
Next ==
    \/ Create(RoomNames, HostUsernames, NewHostPasswords)
    \/ Register(Usernames, Passwords)
    \/ HostAuth(HostUsernames, HostPasswords)
    \/ RemoveParticipant(HostUsernames, HostPasswords, Usernames)
    \/ Start(HostUsernames, HostPasswords, Batches)
    \/ Login(Usernames, Passwords)
    \/ SaveMkdirFails

Spec == Init /\ [][Next]_vars

\* The draw: a shuffle from the last position down to the second, each swapped with a
\* position chosen at or before it, then the check for a participant drawn for
\* themself, which discards the permutation and shuffles again.
server == <<rooms, saveInProgress, savePc, roomsData, file, pending, rateLimitMap, now, resp,
            admitted>>

BeginDraw ==
    /\ client.pc = "idle"
    /\ \E participants \in DrawLists :
          client' = [Idle EXCEPT !.pc = "shuffle", !.participants = participants,
                                 !.shuffled = participants, !.i = Len(participants)]
    /\ UNCHANGED server

ShuffleStep ==
    /\ client.pc = "shuffle"
    /\ client.i > 1
    /\ \E j \in 1..client.i :
          client' = [client EXCEPT !.shuffled = swap(@, client.i, j), !.i = @ - 1]
    /\ UNCHANGED server

CheckDraw ==
    /\ client.pc = "shuffle"
    /\ client.i = 1
    /\ client' = IF hasFixedPoint(client.participants, client.shuffled)
                 THEN [client EXCEPT !.shuffled = client.participants,
                                     !.i = Len(client.participants)]
                 ELSE [client EXCEPT !.pc = "done"]
    /\ UNCHANGED server

Decrypt ==
    /\ client.pc = "idle"
    /\ \E encryptedBase64 \in Base64Inputs, privateKey \in PrivateKeys :
          client' = [Idle EXCEPT !.pc = "decrypted",
                                 !.encryptedBase64 = encryptedBase64,
                                 !.privateKey = privateKey,
                                 !.assignment = decryptWithPrivateKey(encryptedBase64,
                                                                      privateKey)]
    /\ UNCHANGED server

\* loginAndDecrypt from await to await.  An exception leaves through the finally
\* block of lines 261-263, which enables the button.
LoginThrows == [client EXCEPT !.pc = "thrown", !.disabled = FALSE]

\* lines 231-237: the button is disabled and the request is sent
LoginBegin ==
    /\ client.pc = "idle"
    /\ client' = [Idle EXCEPT !.pc = "fetch", !.disabled = TRUE]
    /\ UNCHANGED server

\* fetch or response.json() rejects (lines 233-239)
LoginFetchFails ==
    /\ client.pc = "fetch"
    /\ client' = LoginThrows
    /\ UNCHANGED server

\* the server answers with an error (line 240)
LoginRefused ==
    /\ client.pc = "fetch"
    /\ client' = [LoginThrows EXCEPT !.response = "error"]
    /\ UNCHANGED server

\* the server answers 200 with data.encryptedAssignment (lines 240-243)
LoginAccepted ==
    /\ client.pc = "fetch"
    /\ \E encryptedBase64 \in Base64Inputs :
          client' = [client EXCEPT !.pc = "derive", !.response = "ok",
                                   !.encryptedBase64 = encryptedBase64]
    /\ UNCHANGED server

\* lines 246-258: the key pair of these credentials and of data.keySalt (or an
\* exception of the derivation), the decryption and the test of its result
LoginDecrypt ==
    /\ client.pc = "derive"
    /\ \/ client' = [LoginThrows EXCEPT !.derived = TRUE]
       \/ \E privateKey \in KeyPairs :
             LET assignment == decryptWithPrivateKey(client.encryptedBase64, privateKey)
                 decrypted == [client EXCEPT !.derived = TRUE, !.privateKey = privateKey,
                                             !.assignment = assignment]
             IN  client' = IF assignmentMissing(assignment)
                           THEN [decrypted EXCEPT !.pc = "thrown", !.disabled = FALSE]
                           ELSE [decrypted EXCEPT !.pc = "success"]
    /\ UNCHANGED server

\* lines 258-263: the return, through the finally block
LoginReturn ==
    /\ client.pc = "success"
    /\ client' = [client EXCEPT !.pc = "returned", !.disabled = FALSE]
    /\ UNCHANGED server

NextClient ==
    \/ BeginDraw
    \/ ShuffleStep
    \/ CheckDraw
    \/ Decrypt
    \/ LoginBegin
    \/ LoginFetchFails
    \/ LoginRefused
    \/ LoginAccepted
    \/ LoginDecrypt
    \/ LoginReturn

SpecClient == Init /\ [][NextClient]_vars

\* The same handlers with every outcome of the fs calls, on one-participant inputs
NextSave ==
    \/ Create({XMAS}, {AL}, {PW1})
    \/ Register({BO}, {PW1})
    \/ RemoveParticipant({AL}, {PW1}, {BO})
    \/ Start({AL}, {PW1}, {Array(<<Entry(BO, "c1")>>)})
    \/ SaveMkdir
    \/ SaveMkdirFails
    \/ SaveRead
    \/ SaveReadFails
    \/ SaveBackup
    \/ SaveWrite
    \/ SaveWriteFails

SpecSave == Init /\ [][NextSave]_vars

\* A step of the running save.  The promises of fs.mkdir, fs.readFile and
\* fs.writeFile settle, with a value or with an error, so a suspended saveData is
\* resumed.
SaveStep ==
    \/ SaveMkdir
    \/ SaveMkdirFails
    \/ SaveRead
    \/ SaveReadFails
    \/ SaveBackup
    \/ SaveWrite
    \/ SaveWriteFails

SpecSaveFair == Init /\ [][NextSave]_vars /\ WF_vars(SaveStep)

\* The same handlers on a file system on which every call succeeds
NextPersist ==
    \/ Create({XMAS}, {AL}, {PW1})
    \/ Register({BO}, {PW1})
    \/ RemoveParticipant({AL}, {PW1}, {BO})
    \/ Start({AL}, {PW1}, {Array(<<Entry(BO, "c1")>>)})
    \/ SaveMkdir
    \/ SaveRead
    \/ SaveNoFile
    \/ SaveBackup
    \/ SaveWrite

SpecPersist == Init /\ [][NextPersist]_vars

\* Create and register on usernames that sanitizeString changes
NextShape ==
    \/ Create({XMAS}, ShapeUsernames, {SHORT, PW1})
    \/ Register(ShapeUsernames, {SHORT, PW1})
    \/ SaveMkdirFails

SpecShape == Init /\ [][NextShape]_vars

NextRate ==
    \/ Limiter
    \/ Tick

SpecRate == Init /\ [][NextRate]_vars

----------------------------------------------------------------------------
(* Properties *)

\* the exchange of the handler that ran in this step (none in a step of saveData,
\* which only delivers the response of the handler it resumes)
Handled ==
    IF pending' # pending
    THEN IF pending' = NoResp THEN NoResp ELSE pending'
    ELSE resp'

IsStartOf(exchange, r) == exchange.op = "start" /\ exchange.roomId = r

Idx(room) == 1..Len(room.participants)

IsHost(room, hostUsername, hostPassword) ==
    hashPassword(hostUsername \o hostPassword) = room.hostLoginHash

\* C1: a room is never deleted and its status changes only from 'open' to 'started',
\* in a step of a Start request that is answered with success.
C1_StatusOneWay ==
    [][\A r \in DOMAIN rooms :
          /\ r \in DOMAIN rooms'
          /\ rooms'[r].status # rooms[r].status =>
                /\ rooms[r].status = "open"
                /\ rooms'[r].status = "started"
                /\ IsStartOf(Handled, r)
                /\ Handled.res.status = 200]_vars

C1_Witness ==
    \E r \in DOMAIN rooms :
        /\ rooms[r].status = "started"
        /\ IsStartOf(resp, r)
        /\ resp.res.status = 200

\* C2: a participant's ciphertext, once non-null, keeps its value in every step.
C2_WrittenOnce ==
    [][\A r \in DOMAIN rooms : \A i \in Idx(rooms[r]) :
          rooms[r].participants[i].encryptedAssignment # Null =>
              \A j \in Idx(rooms'[r]) :
                  rooms'[r].participants[j].username = rooms[r].participants[i].username =>
                      rooms'[r].participants[j].encryptedAssignment =
                          rooms[r].participants[i].encryptedAssignment]_vars

\* C3: a participant with a non-null ciphertext is in a room whose status is 'started'.
C3_CiphertextOnlyWhenStarted ==
    \A r \in DOMAIN rooms : \A i \in Idx(rooms[r]) :
        rooms[r].participants[i].encryptedAssignment # Null => rooms[r].status = "started"

\* C4: every participant of a 'started' room has a non-null ciphertext.
C4_AllStamped ==
    \A r \in DOMAIN rooms :
        rooms[r].status = "started" =>
            \A i \in Idx(rooms[r]) : rooms[r].participants[i].encryptedAssignment # Null

\* C5: a Start request answered with an error has changed nothing in rooms.
C5_FailClosed ==
    [][(Handled.op = "start" /\ Handled.res.status \in {400, 401, 404, 500})
          => rooms' = rooms]_vars

\* C6: in a 'started' room every Start request with the host's credentials, whatever
\* its batch, is answered with an error and leaves rooms as it is.
C6_SecondStartRejected ==
    \A r \in DOMAIN rooms :
        rooms[r].status = "started" =>
            \A hostUsername \in HostUsernames, hostPassword \in HostPasswords,
               encryptedAssignments \in Batches :
                IsHost(rooms[r], hostUsername, hostPassword) =>
                    LET h == startRoom(rooms, r, hostUsername, hostPassword,
                                       encryptedAssignments)
                    IN  /\ h.res.status \in {400, 401, 404, 500}
                        /\ h.rooms = rooms
                        /\ ~h.save

C6_Witness ==
    \E r \in DOMAIN rooms :
        /\ rooms[r].status = "started"
        /\ \E i \in Idx(rooms[r]) : rooms[r].participants[i].encryptedAssignment # Null
        /\ IsStartOf(resp, r)
        /\ resp.res.error = "Room has already started"

\* C7: a Start request is accepted only in a step that finds the room 'open' and
\* leaves it 'started', and no step changes a 'started' room: of the Start requests
\* that overlap on a room at most one is accepted, and what it wrote stays.
C7_OneStartWins ==
    [][\A r \in DOMAIN rooms' :
          /\ (IsStartOf(Handled, r) /\ Handled.res.status = 200) =>
                /\ r \in DOMAIN rooms
                /\ rooms[r].status = "open"
                /\ rooms'[r].status = "started"
          /\ (r \in DOMAIN rooms /\ rooms[r].status = "started") =>
                rooms'[r] = rooms[r]]_vars

\* a second Start is answered while the first one is still suspended in saveData
C7_Witness ==
    \E r \in DOMAIN rooms :
        /\ saveInProgress
        /\ IsStartOf(pending, r)
        /\ pending.res.status = 200
        /\ IsStartOf(resp, r)
        /\ resp.res.error = "Room has already started"

\* C8: in a 'started' room every register and every remove-participant request is
\* answered with an error and leaves the participants as they are.
C8_ParticipantsFrozen ==
    \A r \in DOMAIN rooms :
        rooms[r].status = "started" =>
            /\ \A username \in Usernames, password \in Passwords :
                  LET h == register(rooms, r, username, password)
                  IN  /\ h.res.status \in {400, 401, 404}
                      /\ h.rooms[r].participants = rooms[r].participants
            /\ \A hostUsername \in HostUsernames, hostPassword \in HostPasswords,
                  username \in Usernames :
                  LET h == removeParticipant(rooms, r, hostUsername, hostPassword, username)
                  IN  /\ h.res.status \in {400, 401, 404}
                      /\ h.rooms[r].participants = rooms[r].participants

C8_Witness ==
    \E r \in DOMAIN rooms :
        /\ rooms[r].status = "started"
        /\ resp.roomId = r
        /\ \/ /\ resp.op = "register"
              /\ resp.res.error = "Room has already started. Registration is closed."
           \/ /\ resp.op = "remove-participant"
              /\ resp.res.error = "Cannot remove participants after room has started"

\* C9: a login request for a room that is not 'started' gets no encryptedAssignment
\* field; with a participant's correct credentials it gets 'Room has not started yet'.
C9_NoCiphertextBeforeStart ==
    /\ \A r \in RoomIds, username \in Usernames, password \in Passwords :
          (r \in DOMAIN rooms => rooms[r].status # "started") =>
              LET h == login(rooms, r, username, password)
              IN  /\ h.res.encryptedAssignment = Absent
                  /\ h.res.status # 200
                  /\ (/\ r \in DOMAIN rooms
                      /\ \E i \in Idx(rooms[r]) :
                            /\ rooms[r].participants[i].username = username
                            /\ verifyPassword(password, rooms[r].participants[i].passwordHash))
                     => /\ h.res.status = 400
                        /\ h.res.error = "Room has not started yet"
    /\ (resp.op = "login" /\ resp.res.encryptedAssignment # Absent) =>
          /\ resp.roomId \in DOMAIN rooms
          /\ rooms[resp.roomId].status = "started"

C9_Witness ==
    \E r \in DOMAIN rooms :
        /\ rooms[r].status = "open"
        /\ resp.op = "login"
        /\ resp.roomId = r
        /\ resp.res.error = "Room has not started yet"
        /\ resp.res.encryptedAssignment = Absent

\* C10: a login response carries an encryptedAssignment only with status 200, and
\* then it is the one stored on the record whose username is the request's username
\* and whose password hash is the hash of the request's password.
C10_OwnCiphertextOnly ==
    \A r \in RoomIds, username \in Usernames, password \in Passwords :
        LET h == login(rooms, r, username, password)
        IN  /\ h.res.encryptedAssignment # Absent => h.res.status = 200
            /\ h.res.status = 200 =>
                  /\ r \in DOMAIN rooms
                  /\ \E i \in Idx(rooms[r]) :
                        /\ rooms[r].participants[i].username = username
                        /\ rooms[r].participants[i].passwordHash = hashPassword(password)
                        /\ h.res.username = username
                        /\ h.res.encryptedAssignment =
                               rooms[r].participants[i].encryptedAssignment
                        /\ \A j \in Idx(rooms[r]) :
                              rooms[r].participants[j].username = username => j = i

\* a participant has logged in and got theirs while another one holds a different one
C10_Witness ==
    \E r \in DOMAIN rooms : \E i, j \in Idx(rooms[r]) :
        /\ resp.op = "login"
        /\ resp.roomId = r
        /\ resp.res.status = 200
        /\ resp.res.username = rooms[r].participants[i].username
        /\ resp.res.encryptedAssignment = rooms[r].participants[i].encryptedAssignment
        /\ rooms[r].participants[i].encryptedAssignment \in Ciphertexts
        /\ rooms[r].participants[j].encryptedAssignment \in Ciphertexts
        /\ rooms[r].participants[j].encryptedAssignment #
               rooms[r].participants[i].encryptedAssignment

\* C11: a Start or remove-participant request whose hostUsername is not the room's
\* hostUsername, or whose hostPassword is not the password given at creation (the one
\* that, appended to the room's hostUsername, hashes to hostLoginHash), is answered
\* with 401 (400 when a field is missing) and leaves rooms as it is.
C11_HostOnly ==
    \A r \in DOMAIN rooms, hostUsername \in HostUsernames, hostPassword \in HostPasswords :
        LET theHost == /\ hostUsername = rooms[r].hostUsername
                       /\ hashPassword(rooms[r].hostUsername \o hostPassword)
                              = rooms[r].hostLoginHash
            rejected(h, missing) ==
                /\ h.res.status = IF missing THEN 400 ELSE 401
                /\ h.rooms = rooms
                /\ ~h.save
        IN  ~theHost =>
                /\ \A encryptedAssignments \in Batches :
                      rejected(startRoom(rooms, r, hostUsername, hostPassword,
                                         encryptedAssignments),
                               \/ falsy(hostUsername) \/ falsy(hostPassword)
                               \/ encryptedAssignments = Missing)
                /\ \A username \in Usernames :
                      rejected(removeParticipant(rooms, r, hostUsername, hostPassword,
                                                 username),
                               falsy(hostUsername) \/ falsy(hostPassword) \/ falsy(username))

\* C12: a 'started' room has at least 2 participants, and a Start request on a room
\* with fewer than 2 participants is answered with an error and leaves rooms as it is.
C12_AtLeastTwo ==
    \A r \in DOMAIN rooms :
        /\ rooms[r].status = "started" => Len(rooms[r].participants) >= 2
        /\ Len(rooms[r].participants) < 2 =>
              \A hostUsername \in HostUsernames, hostPassword \in HostPasswords,
                 encryptedAssignments \in Batches :
                  LET h == startRoom(rooms, r, hostUsername, hostPassword,
                                     encryptedAssignments)
                  IN  /\ h.res.status \in {400, 401}
                      /\ h.rooms = rooms
                      /\ ~h.save

\* the host has asked to start a room that has one participant
C12_Witness ==
    \E r \in DOMAIN rooms :
        /\ rooms[r].status = "open"
        /\ Len(rooms[r].participants) = 1
        /\ IsStartOf(resp, r)
        /\ resp.res.error = "At least 2 participants are required"

\* C13: a successful login response carries the keySalt that the participant
\* submitted at registration (every registration submits a keySalt of KeySalts).
C13_KeySaltReturned ==
    (resp.op = "login" /\ resp.res.status = 200) => resp.res.keySalt \in KeySalts

\* C14: after a successful registration of a new participant, the record of that
\* participant holds the public key submitted in the request.
C14_PublicKeyStored ==
    [][(/\ Handled.op = "register"
        /\ Handled.res.status = 200
        /\ Handled.res.alreadyRegistered = False)
          => \E i \in Idx(rooms'[Handled.roomId]) :
                LET participant == rooms'[Handled.roomId].participants[i]
                IN  /\ participant.username = Handled.res.username
                    /\ "publicKey" \in DOMAIN participant
                    /\ participant.publicKey \in PublicKeys]_vars

\* C15: for login and for register, a request with a username that is not in the room
\* and a request with a participant's username and a wrong password get the same
\* status and the same error.
C15_GenericAuthErrors ==
    \A r \in DOMAIN rooms, unknown \in Usernames, known \in Usernames,
       password \in Passwords :
        LET participants == rooms[r].participants
            sameAnswer(a, b) == a.res.status = b.res.status /\ a.res.error = b.res.error
        IN  /\ (/\ ~falsy(unknown)
                /\ find(participants, unknown) = 0
                /\ find(participants, known) # 0
                /\ ~verifyPassword(password,
                                   participants[find(participants, known)].passwordHash))
               => sameAnswer(login(rooms, r, unknown, password),
                             login(rooms, r, known, password))
            /\ (/\ validateUsername(unknown).ok
                /\ validateUsername(known).ok
                /\ find(participants, validateUsername(unknown).value) = 0
                /\ find(participants, validateUsername(known).value) # 0
                /\ ~verifyPassword(password,
                       participants[find(participants,
                                         validateUsername(known).value)].passwordHash))
               => sameAnswer(register(rooms, r, unknown, password),
                             register(rooms, r, known, password))

\* C16: no two participants of a room have the same username.
C16_UniqueUsernames ==
    \A r \in DOMAIN rooms : \A i, j \in Idx(rooms[r]) :
        rooms[r].participants[i].username = rooms[r].participants[j].username => i = j

\* a participant of a room of two has registered again and was recognised
C16_Witness ==
    \E r \in DOMAIN rooms :
        /\ Len(rooms[r].participants) >= 2
        /\ resp.op = "register"
        /\ resp.roomId = r
        /\ resp.res.alreadyRegistered = True
        /\ \E i \in Idx(rooms[r]) : rooms[r].participants[i].username = resp.res.username

\* C17: the draw ends with a bijection from the participants (givers) to the
\* participants (receivers) in which nobody is drawn for themself.
C17_Derangement ==
    client.pc = "done" =>
        LET N == Len(client.participants)
        IN  /\ N >= 2
            /\ Len(client.shuffled) = N
            /\ {client.shuffled[k] : k \in 1..N} = {client.participants[k] : k \in 1..N}
            /\ \A k, l \in 1..N : client.shuffled[k] = client.shuffled[l] => k = l
            /\ \A k \in 1..N : client.shuffled[k] # client.participants[k]

\* a draw among three has ended
C17_Witness ==
    /\ client.pc = "done"
    /\ Len(client.participants) = 3
    /\ client.shuffled # client.participants

\* C19: when the text is not the encoding of an encryption under the public key of
\* the private key (wrong key, corrupted or null text, no key), decryptWithPrivateKey
\* returns null and does not throw; otherwise it returns the plaintext, which is not null.
C19_FailureIsNull ==
    client.pc = "decrypted" =>
        LET fails == \/ client.encryptedBase64.kind # "oaep"
                     \/ client.privateKey \notin KeyPairs
                     \/ client.encryptedBase64.keyPair # client.privateKey
        IN  /\ ~client.assignment.threw
            /\ client.assignment.isNull = fails
            /\ ~fails => client.assignment.value = client.encryptedBase64.plaintext

\* a ciphertext made for one key pair was decrypted with the private key of another
C19_Witness ==
    /\ client.pc = "decrypted"
    /\ client.encryptedBase64.kind = "oaep"
    /\ client.privateKey \in KeyPairs
    /\ client.encryptedBase64.keyPair # client.privateKey
    /\ client.assignment = ReturnsNull

\* the times at which the model's clock can stand
Times == {k * TickMs : k \in 0..MaxTicks}

\* C20: of the admitted calls of a client no 11 fall within a span shorter than
\* RATE_LIMIT_WINDOW (the admitted calls older than the window cannot be within such
\* a span of a later call and are dropped from the record), and a call changes the
\* verdict, at any later time, of no client but the caller.
C20_TenPerMinute ==
    [][/\ \A c \in DOMAIN admitted' : \A k \in 1..Len(admitted'[c]) :
             k > MAX_REQUESTS_PER_WINDOW =>
                 admitted'[c][k] - admitted'[c][k - MAX_REQUESTS_PER_WINDOW]
                     >= RATE_LIMIT_WINDOW
       /\ now' = now =>
             \E caller \in Clients : \A other \in Clients \ {caller}, time \in Times :
                 time >= now =>
                     isRateLimited(rateLimitMap', other, time).limited
                         = isRateLimited(rateLimitMap, other, time).limited]_vars

\* a client that has had its 10 requests is refused while another one is not
C20_Witness ==
    \E c, d \in DOMAIN admitted :
        /\ c # d
        /\ Len(admitted[c]) = MAX_REQUESTS_PER_WINDOW
        /\ Len(admitted[d]) \in 1..(MAX_REQUESTS_PER_WINDOW - 1)
        /\ resp.op = "limiter"
        /\ resp.res.status = 429
        /\ ~isRateLimited(rateLimitMap, d, now).limited

\* what a sanitized username is said to be: trimmed, at most 50 characters, none of
\* < > " ' &, and at least 2 characters
WellFormed(username) ==
    /\ trim(username) = username
    /\ Len(username) <= 50
    /\ \A k \in 1..Len(username) : username[k] \notin Stripped
    /\ Len(username) >= 2

\* C21: a create or register request whose sanitized username has fewer than 2
\* characters or whose password has fewer than 4 is answered with an error and leaves
\* rooms as it is, and every stored participant username is well formed.
C21_ShapeChecked ==
    /\ \A r \in RoomIds, username \in ShapeUsernames, password \in {SHORT, PW1} :
          (Len(sanitizeString(username, 50)) < 2 \/ Len(password) < 4) =>
              /\ \A autoJoinHost \in BOOLEAN :
                    LET h == createRoom(rooms, r, XMAS, username, password, autoJoinHost)
                    IN  h.res.status = 400 /\ h.rooms = rooms /\ ~h.save
              /\ LET h == register(rooms, r, username, password)
                 IN  h.res.status \in {400, 404} /\ h.rooms = rooms /\ ~h.save
    /\ \A r \in DOMAIN rooms : \A i \in Idx(rooms[r]) :
          WellFormed(rooms[r].participants[i].username)

\* the record of an 'open' room that a register request is about, 0 if there is none
Registered(r, username) ==
    IF r \in DOMAIN rooms /\ rooms[r].status = "open" /\ validateUsername(username).ok
    THEN find(rooms[r].participants, validateUsername(username).value)
    ELSE 0

\* C22 as claimed: in an 'open' room a register request for a registered username is
\* answered with 200 and alreadyRegistered = true when the password is the
\* participant's and with 401 when it is not, and leaves rooms as it is.
C22_ReRegister ==
    \A r \in RoomIds, username \in Usernames, password \in Passwords \ {EMPTY} :
        Registered(r, username) # 0 =>
            LET h == register(rooms, r, username, password)
                participant == rooms[r].participants[Registered(r, username)]
            IN  /\ h.rooms = rooms
                /\ IF verifyPassword(password, participant.passwordHash)
                   THEN h.res.status = 200 /\ h.res.alreadyRegistered = True
                   ELSE h.res.status = 401

\* C22 as amended: the same, except that a request that passes the host check of
\* line 518 is answered with 200 and isHost = true, and that a password of fewer than
\* 4 characters is answered with 400.
C22_ReRegisterAmended ==
    \A r \in RoomIds, username \in Usernames, password \in Passwords \ {EMPTY} :
        Registered(r, username) # 0 =>
            LET h == register(rooms, r, username, password)
                participant == rooms[r].participants[Registered(r, username)]
            IN  /\ h.rooms = rooms
                /\ ~h.save
                /\ IF Len(password) < 4 THEN h.res.status = 400
                   ELSE IF IsHost(rooms[r], validateUsername(username).value, password)
                   THEN h.res.status = 200 /\ h.res.isHost = True
                   ELSE IF verifyPassword(password, participant.passwordHash)
                   THEN h.res.status = 200 /\ h.res.alreadyRegistered = True
                   ELSE h.res.status = 401

\* a participant of an 'open' room has registered again with a wrong password
C22_Witness ==
    \E r \in DOMAIN rooms :
        /\ rooms[r].status = "open"
        /\ resp.op = "register"
        /\ resp.roomId = r
        /\ resp.res.status = 401
        /\ resp.res.error = "Invalid password for this username"
        /\ \E i \in Idx(rooms[r]) : rooms[r].participants[i].passwordHash = hashPassword(PW2)

\* C23: when a 'started' room holds the record that a register request with a
\* username and a password has added (the sanitized username, the hash of the
\* password; not the host's sign-in), a login request with that username and that
\* password is answered with 200 and that record's ciphertext.
C23_RegisterLoginAgree ==
    \A r \in DOMAIN rooms, username \in Usernames, password \in Passwords :
        LET sanitizedUsername == validateUsername(username)
            added == {i \in Idx(rooms[r]) :
                         /\ rooms[r].participants[i].username = sanitizedUsername.value
                         /\ rooms[r].participants[i].passwordHash = hashPassword(password)}
        IN  (/\ rooms[r].status = "started"
             /\ sanitizedUsername.ok
             /\ validatePassword(password).ok
             /\ ~IsHost(rooms[r], sanitizedUsername.value, password)
             /\ added # {})
            => LET h == login(rooms, r, username, password)
               IN  /\ h.res.status = 200
                   /\ \A i \in added :
                         h.res.encryptedAssignment =
                             rooms[r].participants[i].encryptedAssignment

\* C24: when no save is running and no handler is waiting for one, rooms.json holds
\* the rooms map (nothing is on file as long as no room was created).
C24_Persisted ==
    (~saveInProgress /\ pending = NoResp) =>
        file = IF DOMAIN rooms = {} THEN NoFile ELSE Json(rooms)

\* C25: loginAndDecrypt derives the key only after a 200 response; it returns only
\* with the non-empty plaintext that the decryption gave; it throws when the server
\* answers with an error and when the decryption returns null; and it ends, by
\* return or by exception, with the button enabled.
C25_LoginAndDecrypt ==
    /\ client.derived => client.response = "ok"
    /\ client.pc \in {"success", "returned"} =>
          /\ client.response = "ok"
          /\ client.derived
          /\ client.assignment =
                 decryptWithPrivateKey(client.encryptedBase64, client.privateKey)
          /\ ~client.assignment.threw
          /\ ~client.assignment.isNull
          /\ client.assignment.value # << >>
          /\ client.encryptedBase64.kind = "oaep"
          /\ client.assignment.value = client.encryptedBase64.plaintext
    /\ client.response = "error" => client.pc = "thrown"
    /\ (client.derived /\ client.privateKey \in KeyPairs /\ client.assignment.isNull)
          => client.pc = "thrown"
    /\ client.pc \in {"returned", "thrown"} => ~client.disabled

\* the server has answered 200 and the decryption has failed
C25_Witness ==
    /\ client.pc = "thrown"
    /\ client.response = "ok"
    /\ client.derived
    /\ client.privateKey \in KeyPairs
    /\ client.assignment = ReturnsNull
    /\ ~client.disabled

\* the list without its k-th element
Without(participants, k) ==
    SubSeq(participants, 1, k - 1) \o SubSeq(participants, k + 1, Len(participants))

C27_SaveExclusive ==
    /\ [](saveInProgress <=> savePc # "idle")
    /\ [][/\ (savePc' = "mkdir" /\ savePc # "mkdir") => (~saveInProgress /\ savePc = "idle")
          /\ (saveInProgress /\ pending' # pending) => (pending' = NoResp /\ ~saveInProgress')
          /\ (savePc # "idle" /\ savePc' = "idle") => ~saveInProgress']_vars
    /\ (saveInProgress ~> ~saveInProgress)

\* after a save that failed in the write, the save of a register request is running
\* and the saveData call of a remove-participant request has been skipped
C27_Witness ==
    /\ saveInProgress
    /\ file = Truncated
    /\ pending.op = "register"
    /\ resp.op = "remove-participant"
    /\ resp.res.status = 200

====
